---- MODULE Spec2Model ----
(***************************************************************************)
(* Model of the controller input subsystem of batocera-controlcenter:      *)
(* GamePads (src/gamepads.py) and the parts of UICore (src/ui_core.py)     *)
(* that start and stop it, and of the periodic refresh of the widgets,     *)
(* RefreshTask (src/refresh.py).                                           *)
(*                                                                         *)
(* Two kinds of threads run the code: the UI thread (the GLib main loop,   *)
(* which runs show/hide/quit, the timer callbacks and the idle callbacks)  *)
(* and the worker threads created by startThread().  A multi-statement     *)
(* operation of the UI thread is kept in `ui` as the list of statements    *)
(* still to run; a worker's position is wpc[w].                            *)
(***************************************************************************)
EXTENDS Integers, Sequences, FiniteSets, TLC

\* ---------------------------------------------------------------- bounds
NumDevs   == 2      \* input nodes udev lists (event1, event2)
MaxStarts == 2      \* startThread() calls in one run of Spec
MaxEvents == 2      \* hardware events read in one run of Spec
MaxStartsT == 1     \* startThread() calls in one run of TimerSpec
MaxEventsT == 3     \* hardware events read in one run of TimerSpec
MaxQueue  == 2      \* pending idle callbacks
MaxEventsE == 2     \* hardware events read in one run of EnvSpec
MaxEventsB == 3     \* hardware events read in one run of BatchSpec
MaxBatch  == 2      \* events one device.read() returns in BatchSpec
NumTasks  == 2      \* RefreshTask objects in UICore.refreshers
MaxShows  == 3      \* show() calls in one run of RefreshSpec

Workers == 1..MaxStarts
Phys    == 1..NumDevs
NoObj   == <<0, 0>>
Objs    == Workers \X Phys          \* InputDevice objects: <<opening worker, node>>

\* ------------------------------------------------------- program constants
HatCodeBase == 16                   \* event.code >= 16 is a hat

\* The actions table with an entry for the start button
actionsWithStart ==
  [ b |-> "activate", a |-> "back", start |-> "menu",
    up |-> "axis_up", down |-> "axis_down", left |-> "axis_left", right |-> "axis_right",
    joystick1up |-> "axis_up", joystick1down |-> "axis_down",
    joystick1left |-> "axis_left", joystick1right |-> "axis_right",
    joystick2up |-> "pan_up", joystick2down |-> "pan_down",
    joystick2left |-> "pan_left", joystick2right |-> "pan_right",
    pageup |-> "previous_tab", pagedown |-> "next_tab" ]

\* listen(): the actions table
actions ==
  [ b |-> "activate", a |-> "back",
    up |-> "axis_up", down |-> "axis_down", left |-> "axis_left", right |-> "axis_right",
    joystick1up |-> "axis_up", joystick1down |-> "axis_down",
    joystick1left |-> "axis_left", joystick1right |-> "axis_right",
    joystick2up |-> "pan_up", joystick2down |-> "pan_down",
    joystick2left |-> "pan_left", joystick2right |-> "pan_right",
    pageup |-> "previous_tab", pagedown |-> "next_tab" ]

_should_use_continuous_action(action_name) ==
  action_name \in { "joystick1up", "joystick1down", "joystick1left", "joystick1right",
                    "joystick2up", "joystick2down", "joystick2left", "joystick2right",
                    "up", "down", "left", "right" }

\* ------------------------------------------------------------------ state
VARIABLES
  visible,              \* UICore.window is shown
  startPending,         \* pending GLib timeouts of start_gamepad_delayed
  ui,                   \* statements the UI thread still has to run in its current call
  stopped,              \* history: stopThread() has returned and startThread() was not called since
  nstarts,              \* threads created so far
  nevents,              \* hardware events read so far
  hw,                   \* hw[p]: the values the kernel holds for node p's inputs
  gamepad_thread,       \* GamePads._gamepad_thread (0 is None)
  gamepad_running,      \* GamePads._gamepad_running
  gamepad_devices,      \* GamePads._gamepad_devices: the list object it refers to
  heap,                 \* the list objects: heap[l] is the content of list l
  opened,               \* InputDevice objects whose descriptor is open
  grab,                 \* grab[p]: the object holding the exclusive grab of node p
  wpc,                  \* wpc[w]: where worker w is in evdev_loop
  widx,                 \* widx[w]: position of the worker's running for-loop
  wlist,                \* wlist[w]: the list object that for-loop iterates
  wmapped,              \* wmapped[w]: the objects with an entry in listen()'s mappings
  wax,                  \* wax[w]: listen()'s axis_states, wax[w][device][code]
  wops,                 \* wops[w]: what _handle_event still has to do for the event read
  wbatch,               \* wbatch[w]: the events device.read() returned, still to handle
  continuous_timers,    \* GamePads._continuous_timers: action -> timer id
  continuous_callbacks, \* GamePads._continuous_callbacks (its keys)
  continuous_enabled,   \* GamePads._continuous_actions_enabled
  sources,              \* live GLib timeout sources: timer id -> action
  idleq,                \* calls posted with GLib.idle_add and not yet run
  callback_thread,      \* history: the thread that ran the consumer callback last
  call,                 \* the last call of a static function: its name, arguments, result
  env,                  \* what the program finds: joystick nodes, es_input.cfg, the cache file
  refresh               \* UICore.refreshers and the pending timeouts of the refresh

uiVars    == <<visible, startPending, ui, stopped, nstarts>>
devVars   == <<gamepad_devices, heap, opened, grab>>
wVars     == <<wpc, widx, wlist, wmapped, wax, wops, wbatch>>
timerVars == <<continuous_timers, continuous_callbacks, sources>>
programVars == <<visible, startPending, ui, stopped, nstarts, nevents, hw, gamepad_thread,
                 gamepad_running, gamepad_devices, heap, opened, grab, wpc, widx, wlist,
                 wmapped, wax, wops, wbatch, continuous_timers, continuous_callbacks,
                 continuous_enabled, sources, idleq, callback_thread, env, refresh>>
programVarsNoRefresh ==
  <<visible, startPending, ui, stopped, nstarts, nevents, hw, gamepad_thread,
    gamepad_running, gamepad_devices, heap, opened, grab, wpc, widx, wlist,
    wmapped, wax, wops, wbatch, continuous_timers, continuous_callbacks,
    continuous_enabled, sources, idleq, callback_thread, env>>
vars == <<visible, startPending, ui, stopped, nstarts, nevents, hw, gamepad_thread,
          gamepad_running, gamepad_devices, heap, opened, grab, wpc, widx, wlist,
          wmapped, wax, wops, wbatch, continuous_timers, continuous_callbacks,
          continuous_enabled, sources, idleq, callback_thread, call, env, refresh>>

\* ---------------------------------------------------------------- helpers
Empty == << >>
EmptyMap == [x \in {} |-> 0]
Put(f, k, v) == [x \in DOMAIN f \cup {k} |-> IF x = k THEN v ELSE f[x]]
Del(f, k) == [x \in DOMAIN f \ {k} |-> f[x]]
Range(q) == { q[i] : i \in DOMAIN q }
DevList == heap[gamepad_devices]           \* the content of self._gamepad_devices
NoCall == [fn |-> "none"]
\* The outcome of a call: an exception left the function, or it returned a value
Raised == [raised |-> TRUE]
Returned(v) == [raised |-> FALSE, res |-> v]

\* ------------------------------------------------------ static functions
\* The hexadecimal digits of bytes.hex()
Hex == << "0", "1", "2", "3", "4", "5", "6", "7",
          "8", "9", "a", "b", "c", "d", "e", "f" >>
HexByte(b) == << Hex[(b \div 16) + 1], Hex[(b % 16) + 1] >>

\* x.to_bytes(2, byteorder='big').hex()
to_bytes_hex_big(x) == HexByte(x \div 256) \o HexByte(x % 256)

\* x.to_bytes(2, byteorder='little').hex(), for x in 0..65535
to_bytes_hex(x) == HexByte(x % 256) \o HexByte(x \div 256)

\* compute_guid(bus, vendor, product, version): the string, one character per element
compute_guid(bus, vendor, product, version) ==
  LET zeros == << "0", "0", "0", "0" >>
  IN  to_bytes_hex(bus) \o zeros \o to_bytes_hex(vendor) \o zeros
      \o to_bytes_hex(product) \o zeros \o to_bytes_hex(version) \o zeros

\* An <inputConfig> element is [deviceGUID, deviceName, inputs]; a document is the
\* list of its elements; an element is named by <<document, position>>.
NoElement == << 0, 0 >>
Element(g, n, inputs) == [deviceGUID |-> g, deviceName |-> n, inputs |-> inputs]
\* An <input> element: its attributes
Input(n, t, i, c, v) == [name |-> n, type |-> t, id |-> i, code |-> c, value |-> v]

\* The three XPath predicates of _find_input_config
Match(tier, el, name, guid) ==
  CASE tier = "both" -> el.deviceGUID = guid /\ el.deviceName = name
    [] tier = "guid" -> el.deviceGUID = guid
    [] tier = "name" -> el.deviceName = name

\* pads_config.find(path): the first element of document d that satisfies the predicate
FindIn(pads_configs, d, tier, name, guid) ==
  LET hits == { i \in DOMAIN pads_configs[d] : Match(tier, pads_configs[d][i], name, guid) }
  IN  IF hits = {} THEN NoElement
      ELSE << d, CHOOSE i \in hits : \A j \in hits : i <= j >>

\* One of the three for loops of _find_input_config: the first document with a hit
FirstFound(pads_configs, tier, name, guid) ==
  LET docs == { d \in DOMAIN pads_configs :
                  FindIn(pads_configs, d, tier, name, guid) # NoElement }
  IN  IF docs = {} THEN NoElement
      ELSE FindIn(pads_configs, CHOOSE d \in docs : \A e \in docs : d <= e, tier, name, guid)

\* The lookup with the name-only loop run before the identifier-only loop
FindNameFirst(pads_configs, name, guid) ==
  IF FirstFound(pads_configs, "both", name, guid) # NoElement
    THEN FirstFound(pads_configs, "both", name, guid)
  ELSE IF FirstFound(pads_configs, "name", name, guid) # NoElement
    THEN FirstFound(pads_configs, "name", name, guid)
  ELSE FirstFound(pads_configs, "guid", name, guid)

\* _find_input_config(pads_configs, name, guid)
_find_input_config(pads_configs, name, guid) ==
  IF FirstFound(pads_configs, "both", name, guid) # NoElement
    THEN FirstFound(pads_configs, "both", name, guid)
  ELSE IF FirstFound(pads_configs, "guid", name, guid) # NoElement
    THEN FirstFound(pads_configs, "guid", name, guid)
  ELSE FirstFound(pads_configs, "name", name, guid)

\* The other side of the four stick directions the documents store
OtherSide ==
  [ joystick1left |-> "joystick1right", joystick1up |-> "joystick1down",
    joystick2left |-> "joystick2right", joystick2up |-> "joystick2down" ]

\* The code and the value an <input> is stored under (lines 236-246)
InputCode(input) ==
  IF input.type = "hat"
    THEN 16 + input.id + (IF input.name \in {"up", "down"} THEN 1 ELSE 0)
    ELSE input.code
InputValue(input) ==
  IF input.type = "hat"
    THEN (IF input.name \in {"up", "left"} THEN -1 ELSE 1)
    ELSE input.value

\* One <input> stored without the other side of a stick direction
AddInputOneSide(mappings, input) ==
  LET m1 == IF input.type \in DOMAIN mappings THEN mappings
            ELSE Put(mappings, input.type, EmptyMap)
      m2 == IF InputCode(input) \in DOMAIN m1[input.type] THEN m1
            ELSE [m1 EXCEPT ![input.type] = Put(@, InputCode(input), EmptyMap)]
  IN  IF InputValue(input) \in DOMAIN m2[input.type][InputCode(input)] THEN m2
      ELSE [m2 EXCEPT ![input.type][InputCode(input)] = Put(@, InputValue(input), input.name)]

\* _find_best_controller_mapping, one turn of its loop (lines 233-265)
AddInput(mappings, input) ==
  LET m1 == IF input.type \in DOMAIN mappings THEN mappings
            ELSE Put(mappings, input.type, EmptyMap)
      m2 == IF InputCode(input) \in DOMAIN m1[input.type] THEN m1
            ELSE [m1 EXCEPT ![input.type] = Put(@, InputCode(input), EmptyMap)]
  IN  IF InputValue(input) \in DOMAIN m2[input.type][InputCode(input)] THEN m2
      ELSE LET m3 == [m2 EXCEPT ![input.type][InputCode(input)] =
                        Put(@, InputValue(input), input.name)]
           IN  IF input.type = "axis" /\ input.name \in DOMAIN OtherSide
                 THEN [m3 EXCEPT ![input.type][InputCode(input)] =
                         Put(@, -InputValue(input), OtherSide[input.name])]
                 ELSE m3

\* _find_best_controller_mapping, the loop over the <input> elements
RECURSIVE AddInputs(_, _)
AddInputs(mappings, inputs) ==
  IF inputs = Empty THEN mappings
  ELSE AddInputs(AddInput(mappings, Head(inputs)), Tail(inputs))

\* _find_best_controller_mapping(); None is [none |-> TRUE]
_find_best_controller_mapping(pads_configs, name, bus, vendor, product, version) ==
  LET guid == compute_guid(bus, vendor, product, version)
      input_config == _find_input_config(pads_configs, name, guid)
  IN  IF input_config = NoElement THEN [none |-> TRUE]
      ELSE AddInputs(EmptyMap, pads_configs[input_config[1]][input_config[2]].inputs)

\* ------------------------------------------------- devices of the model
\* The mapping _find_best_controller_mapping resolves for the model's pad:
\* button 304 is "b", hat 0 up/down (code 17) and the two axes of stick 1.
Mapping ==
  [ button |-> (304 :> (1 :> "b")),
    hat    |-> (17 :> ((-1) :> "up" @@ 1 :> "down")),
    axis   |-> (1 :> ((-1) :> "joystick1up" @@ 1 :> "joystick1down")
                @@ 0 :> ((-1) :> "joystick1left" @@ 1 :> "joystick1right")) ]

\* The model's pads are all of one make: its name and the words of its identifier
PadName == "pad1"
PadBus == 3
PadVendor == 1118
PadProduct == 654
PadVersion == 272

\* The <inputConfig> of the pad in es_input.cfg, and the one of another pad
PadElement ==
  Element(compute_guid(PadBus, PadVendor, PadProduct, PadVersion), PadName,
          << Input("b", "button", 0, 304, 1),
             Input("up", "hat", 0, 0, 1), Input("down", "hat", 0, 0, 4),
             Input("joystick1up", "axis", 0, 1, -1),
             Input("joystick1left", "axis", 0, 0, -1) >>)
OtherElement ==
  Element(compute_guid(PadBus, PadVendor, PadProduct + 1, PadVersion), "pad2",
          << Input("a", "button", 0, 305, 1) >>)

\* One of the two es_input.cfg files: absent, not well-formed XML, or a document
NoXml == [exists |-> FALSE, parses |-> FALSE, root |-> Empty]
BadXml == [exists |-> TRUE, parses |-> FALSE, root |-> Empty]
Xml(root) == [exists |-> TRUE, parses |-> TRUE, root |-> root]

\* load_es_dbpads(): the roots of the files that exist, the user's file first;
\* ET.parse raises on a file that is not well-formed
load_es_dbpads(conffiles) ==
  IF \E i \in DOMAIN conffiles : conffiles[i].exists /\ ~conffiles[i].parses THEN Raised
  ELSE Returned([i \in 1..Len(SelectSeq(conffiles, LAMBDA f : f.exists)) |->
                   SelectSeq(conffiles, LAMBDA f : f.exists)[i].root])

\* listen(), lines 326-331, with every unmatched device given the mapping of the
\* model's pad
DeviceMappingPad(pads_configs) == Mapping

\* listen(), lines 326-331: the mapping of a device of the model's make; {} when
\* _find_best_controller_mapping returns None
DeviceMapping(pads_configs) ==
  LET mapping == _find_best_controller_mapping(pads_configs, PadName, PadBus, PadVendor,
                                               PadProduct, PadVersion)
  IN  IF mapping = [none |-> TRUE] THEN EmptyMap ELSE mapping

AbsMin == -32768                    \* abs_info.min of the model's stick axis
AbsMax == 32767                     \* abs_info.max of the model's stick axis

\* The bounds with a deadzone of a third of the range on each side
AxisBoundsThird(min, max, centered) ==
  LET center    == (max + min) \div 2
      threshold == (max - min) \div 3
  IN  IF centered
        THEN [bornemin |-> min + threshold, bornemax |-> max - threshold]
        ELSE [bornemin |-> min - 1, bornemax |-> center]

\* listen(): {bornemin, bornemax} of one axis
AxisBounds(min, max, centered) ==
  LET center    == (max + min) \div 2
      threshold == (max - min) \div 4
  IN  IF centered
        THEN [bornemin |-> min + threshold, bornemax |-> max - threshold]
        ELSE [bornemin |-> min - 1, bornemax |-> center]

\* listen() and _handle_event(): a raw sample against the bounds
Discretize(value, info) ==
  IF value < info.bornemin THEN -1
  ELSE IF value > info.bornemax THEN 1
  ELSE 0

\* ------------------------------------------------- the calibration cache
ABS_HAT0X == 16                     \* evdev.ecodes.ABS_HAT0X

\* The cache file /userdata/system/.sdl2/<guid>_<name>.cache: absent, or its lines;
\* a line is an integer or text that int() rejects
Line(v) == [int |-> TRUE, v |-> v]
BadLine == [int |-> FALSE, v |-> 0]
NoFile == [exists |-> FALSE, lines |-> Empty]
File(lines) == [exists |-> TRUE, lines |-> lines]

\* get_mapping_axis_relaxed_values with the band of the centered axes closed:
\* -4000 <= val <= 4000
relaxed_values_closed_band(cache, caps) ==
  IF ~cache.exists THEN Returned(EmptyMap)
  ELSE IF cache.lines = Empty \/ ~cache.lines[1].int THEN Raised
  ELSE
    LET n == cache.lines[1].v
        codes == SelectSeq(caps, LAMBDA code : code < ABS_HAT0X)
    IN  IF \E i \in 1..n : i + 1 > Len(cache.lines) \/ ~cache.lines[i + 1].int THEN Raised
        ELSE
          LET relaxed_values == [i \in 1..n |-> cache.lines[i + 1].v]
          IN  IF Len(codes) > Len(relaxed_values) THEN Raised
              ELSE Returned(
                     [code \in Range(codes) |->
                        LET val == relaxed_values[CHOOSE i \in DOMAIN codes : codes[i] = code]
                        IN  [centered |-> val >= -4000 /\ val <= 4000, reversed |-> val > 4000]])

\* get_mapping_axis_relaxed_values(device): cache is the device's cache file, caps the
\* codes of caps[EV_ABS] in their order
get_mapping_axis_relaxed_values(cache, caps) ==
  IF ~cache.exists THEN Returned(EmptyMap)
  ELSE IF cache.lines = Empty \/ ~cache.lines[1].int THEN Raised
  ELSE
    LET n == cache.lines[1].v
        codes == SelectSeq(caps, LAMBDA code : code < ABS_HAT0X)
    IN  IF \E i \in 1..n : i + 1 > Len(cache.lines) \/ ~cache.lines[i + 1].int THEN Raised
        ELSE
          LET relaxed_values == [i \in 1..n |-> cache.lines[i + 1].v]
          IN  IF Len(codes) > Len(relaxed_values) THEN Raised
              ELSE Returned(
                     [code \in Range(codes) |->
                        LET val == relaxed_values[CHOOSE i \in DOMAIN codes : codes[i] = code]
                        IN  [centered |-> val > -4000 /\ val < 4000, reversed |-> val > 4000]])

\* listen(), line 347: an axis is given the centered bounds when the calibration
\* result has no entry for it
CenteredByDefault(relaxValues, code) ==
  code \notin DOMAIN relaxValues \/ relaxValues[code].centered

\* listen(), line 347: the axis has a calibration entry and it is centered
Centered(relaxValues, code) ==
  code \in DOMAIN relaxValues /\ relaxValues[code].centered

\* The absolute axes of the model's pad: two stick axes and hat 0
Caps == << 0, 1, 16, 17 >>

\* The cache files of the model
CenteredFile == File(<< Line(2), Line(0), Line(0) >>)        \* both sticks rest at 0
TriggerFile  == File(<< Line(2), Line(0), Line(-32768) >>)   \* axis 1 rests at its minimum
ShortFile    == File(<< Line(2), Line(0) >>)                 \* N above the lines that follow
FewFile      == File(<< Line(1), Line(0) >>)                 \* fewer samples than axes
TextFile     == File(<< Line(2), Line(0), BadLine >>)        \* a line that is no integer
CacheFiles == { NoFile, CenteredFile, TriggerFile, ShortFile, FewFile, TextFile }

\* listen(), lines 341-356: the bounds of the mapped axes of the model's pad, for
\* each cache file and for the file of the run
SessionAxisInfos ==
  [cache \in CacheFiles |->
     LET relaxValues == get_mapping_axis_relaxed_values(cache, Caps)
     IN  [code \in DOMAIN Mapping.axis |->
            AxisBounds(AbsMin, AbsMax,
                       ~relaxValues.raised /\ Centered(relaxValues.res, code))]]
axis_infos == SessionAxisInfos[env.cache]

\* The hardware events the model's pad sends.
Ev(t, c, v) == [type |-> t, code |-> c, value |-> v]
HatEvents    == { Ev("EV_ABS", 17, v) : v \in {-1, 0, 1} }
ButtonEvents == { Ev("EV_KEY", 304, v) : v \in {0, 1} }
AxisSamples  == {AbsMin, 0}           \* stick pushed up, stick at rest
AxisEvents   == { Ev("EV_ABS", 1, v) : v \in AxisSamples }
Events       == HatEvents \cup ButtonEvents \cup AxisEvents

\* The kernel keeps the last value of every input of a node and sends an event
\* only when the value changes.
HwKey(event) == <<event.type, event.code>>
HwStates == { h \in [ {HwKey(e) : e \in Events} -> {e.value : e \in Events} ] :
                \A k \in DOMAIN h : Ev(k[1], k[2], h[k]) \in Events }

\* ------------------------------------------------------- _handle_event
\* What _handle_event does for one event is a list of statements on the state
\* shared with the UI thread; each is run as a step of its own.  `from` is history:
\* for the statements of a hat release, the direction that was active before it.
Op(o, a) == [op |-> o, a |-> a, id |-> 0, from |-> ""]

\* "press": the test of line 410/457/489 and what follows it
PressOps(mp, value) ==
  IF value \in DOMAIN mp /\ mp[value] \in DOMAIN actions
    THEN << Op("press", mp[value]) >> ELSE Empty
\* "axrel": the test of line 470/480 and what follows it
ReleaseOps(mp, value) ==
  IF value \in DOMAIN mp /\ mp[value] \in DOMAIN actions
    THEN << Op("axrel", mp[value]) >> ELSE Empty

\* The axis branch with the direction change starting the new action before it
\* stops the old one
AxisOpsPressFirst(mapping, code, value, old_axis_value) ==
  LET axis_value == Discretize(value, axis_infos[code])
      mp == mapping.axis[code]
  IN  [ ax  |-> axis_value,
        ops |-> IF axis_value # 0 /\ old_axis_value = 0 THEN PressOps(mp, axis_value)
                ELSE IF axis_value = 0 /\ old_axis_value # 0 THEN ReleaseOps(mp, old_axis_value)
                ELSE IF axis_value # 0 /\ old_axis_value # 0 /\ axis_value # old_axis_value
                  THEN PressOps(mp, axis_value) \o ReleaseOps(mp, old_axis_value)
                ELSE Empty ]

\* The axis branch without the comparison with the stored state: every sample
\* outside the deadzone is an activation
AxisOpsNoEdge(mapping, code, value, old_axis_value) ==
  LET axis_value == Discretize(value, axis_infos[code])
      mp == mapping.axis[code]
  IN  [ ax  |-> axis_value,
        ops |-> IF axis_value # 0 /\ old_axis_value = axis_value THEN PressOps(mp, axis_value)
                ELSE IF axis_value # 0 /\ old_axis_value = 0 THEN PressOps(mp, axis_value)
                ELSE IF axis_value = 0 /\ old_axis_value # 0 THEN ReleaseOps(mp, old_axis_value)
                ELSE IF axis_value # 0 /\ old_axis_value # 0 /\ axis_value # old_axis_value
                  THEN ReleaseOps(mp, old_axis_value) \o PressOps(mp, axis_value)
                ELSE Empty ]

\* _handle_event, axis branch: the new axis state and the statements to run
AxisOps(mapping, code, value, old_axis_value) ==
  LET axis_value == Discretize(value, axis_infos[code])
      mp == mapping.axis[code]
  IN  [ ax  |-> axis_value,
        ops |-> IF axis_value # 0 /\ old_axis_value = 0 THEN PressOps(mp, axis_value)
                ELSE IF axis_value = 0 /\ old_axis_value # 0 THEN ReleaseOps(mp, old_axis_value)
                ELSE IF axis_value # 0 /\ old_axis_value # 0 /\ axis_value # old_axis_value
                  THEN ReleaseOps(mp, old_axis_value) \o PressOps(mp, axis_value)
                ELSE Empty ]

\* _handle_event: [ax: the axis state of (device, event.code) afterwards,
\* ops: the statements to run]. `known` says whether axis_states has the entry.
_handle_event(mapping, event, known, old_axis_value) ==
  LET same == [ax |-> old_axis_value, ops |-> Empty]
  IN
  IF DOMAIN mapping = {} THEN same
  ELSE IF event.type = "EV_KEY" THEN
    IF /\ event.value # 0
       /\ "button" \in DOMAIN mapping
       /\ event.code \in DOMAIN mapping.button
       /\ event.value \in DOMAIN mapping.button[event.code]
       /\ mapping.button[event.code][event.value] \in DOMAIN actions
      THEN [ax |-> old_axis_value,
            ops |-> << Op("post", actions[mapping.button[event.code][event.value]]) >>]
      ELSE same
  ELSE IF event.type = "EV_ABS" THEN
    IF event.code >= HatCodeBase /\ event.value # 0 THEN
      IF "hat" \in DOMAIN mapping /\ event.code \in DOMAIN mapping.hat
        THEN [ax |-> old_axis_value, ops |-> PressOps(mapping.hat[event.code], event.value)]
        ELSE same
    ELSE IF event.code >= HatCodeBase /\ event.value = 0 THEN
      IF "hat" \in DOMAIN mapping /\ event.code \in DOMAIN mapping.hat
        THEN [ax |-> old_axis_value, ops |-> << [op |-> "hatrel", a |-> "", id |-> event.code, from |-> ""] >>]
        ELSE same
    ELSE
      IF "axis" \in DOMAIN mapping /\ event.code \in DOMAIN mapping.axis /\ known
        THEN AxisOps(mapping, event.code, event.value, old_axis_value)
        ELSE same
  ELSE same

\* ------------------------------------------------------------- RefreshTask
\* The tasks of UICore.refreshers
Tasks == 1..NumTasks

\* RefreshTask.__init__. active is _active; ticks is the number of pending GLib
\* timeouts of _tick; halted and after are history: stop() was called and start()
\* has not started the task since, and the ticks that have run the command since.
RefreshTask == [active |-> FALSE, ticks |-> 0, halted |-> FALSE, after |-> 0]

\* _schedule_tick(): GLib.timeout_add(delay, self._tick)
_schedule_tick(t) == [t EXCEPT !.ticks = @ + 1]

\* start()
start(t) ==
  IF t.active THEN t
  ELSE _schedule_tick([t EXCEPT !.active = TRUE, !.halted = FALSE, !.after = 0])

\* stop()
stop(t) ==
  IF t.halted THEN [t EXCEPT !.active = FALSE]
  ELSE [t EXCEPT !.active = FALSE, !.halted = TRUE, !.after = 0]

\* _tick(), called by GLib when one of the timeouts is due: the command is run on a
\* thread of its own, the task is scheduled again if it is active, and the timeout
\* that fired ends (return False)
_tick(t) ==
  LET fired == [t EXCEPT !.ticks = @ - 1, !.after = IF t.halted THEN @ + 1 ELSE @]
  IN  IF t.active THEN _schedule_tick(fired) ELSE fired

\* ------------------------------------------------------------ initial state
\* What a run finds: the nodes udev flags ID_INPUT_JOYSTICK, the two es_input.cfg
\* files (the user's, the system's) and the cache file of the pad's make
Env(joysticks, es_input, cache) ==
  [joysticks |-> joysticks, es_input |-> es_input, cache |-> cache]

EsInputs ==
  { << NoXml, NoXml >>,
    << NoXml, Xml(<< PadElement >>) >>,
    << Xml(<< OtherElement >>), Xml(<< OtherElement, PadElement >>) >>,
    << NoXml, Xml(<< OtherElement >>) >>,
    << NoXml, BadXml >>,
    << BadXml, Xml(<< PadElement >>) >> }

\* One pad plugged in (node 1; node 2 is no joystick), its calibration cached, and
\* its element in the system's es_input.cfg, the user's file absent or not well-formed
Envs ==
  { Env({1}, es_input, CenteredFile) :
      es_input \in { << NoXml, Xml(<< PadElement >>) >>, << BadXml, Xml(<< PadElement >>) >> } }

\* One pad with any of the es_input.cfg files, or with any of the cache files, and
\* any set of pads with the files in order
EnvsAny ==
  { Env({1}, es_input, CenteredFile) : es_input \in EsInputs }
  \cup { Env({1}, << NoXml, Xml(<< PadElement >>) >>, cache) : cache \in CacheFiles }
  \cup { Env({1}, << NoXml, Xml(<< OtherElement >>) >>, NoFile) }
  \cup { Env(joysticks, << NoXml, Xml(<< PadElement >>) >>, CenteredFile) :
           joysticks \in SUBSET Phys }

\* GamePads.__init__; the hat and button of a pad are released, its stick in any
\* position
Constructed(envs) ==
  /\ env \in envs
  /\ visible = FALSE
  /\ startPending = 0
  /\ ui = Empty
  /\ stopped = FALSE
  /\ nstarts = 0
  /\ nevents = 0
  /\ hw \in { f \in [Phys -> { h \in HwStates : h[<<"EV_ABS", 17>>] = 0 /\ h[<<"EV_KEY", 304>>] = 0 }] :
                \A p \in Phys \ env.joysticks : f[p][<<"EV_ABS", 1>>] = 0 }
  /\ gamepad_thread = 0
  /\ gamepad_running = FALSE
  /\ gamepad_devices = 1
  /\ heap = << Empty >>
  /\ opened = {}
  /\ grab = [p \in Phys |-> NoObj]
  /\ wpc = [w \in Workers |-> "none"]
  /\ widx = [w \in Workers |-> 0]
  /\ wlist = [w \in Workers |-> 0]
  /\ wmapped = [w \in Workers |-> EmptyMap]
  /\ wax = [w \in Workers |-> EmptyMap]
  /\ wops = [w \in Workers |-> Empty]
  /\ wbatch = [w \in Workers |-> Empty]
  /\ continuous_timers = EmptyMap
  /\ continuous_callbacks = {}
  /\ continuous_enabled = FALSE
  /\ sources = EmptyMap
  /\ idleq = Empty
  /\ callback_thread = "none"
  /\ call = NoCall
  /\ refresh = [shown |-> FALSE, nshows |-> 0, startIdle |-> 0,
                refreshers |-> [r \in Tasks |-> RefreshTask]]

Init == Constructed(Envs)
InitAny == Constructed(EnvsAny)

\* ------------------------------------------------------------ UI thread
\* The UI thread takes a new callback only when its current call has returned.
UiIdle == ui = Empty

\* stopThread(), after the first statement of stop_listen():
\* _stop_all_continuous_actions() twice, then the join
StopThreadRest == << "rm", "clr", "rm", "clr", "join" >>

\* UICore.show(): start_gamepad() arms the 50 ms timeout of start_gamepad_delayed
Show(limit) ==
  /\ UiIdle /\ ~visible
  /\ nstarts + startPending < limit
  /\ visible' = TRUE
  /\ startPending' = startPending + 1
  /\ UNCHANGED <<ui, stopped, nstarts, nevents, hw, call, env, refresh, gamepad_thread, gamepad_running,
                 devVars, wVars, timerVars, continuous_enabled, idleq, callback_thread>>

\* start_gamepad_delayed() -> GamePads.startThread(): a new thread runs evdev_loop
StartGamepadDelayed ==
  /\ UiIdle /\ startPending > 0
  /\ startPending' = startPending - 1
  /\ nstarts' = nstarts + 1
  /\ gamepad_thread' = nstarts + 1
  /\ stopped' = FALSE
  /\ wpc' = [wpc EXCEPT ![nstarts + 1] = "open"]
  /\ widx' = [widx EXCEPT ![nstarts + 1] = 1]
  /\ UNCHANGED <<visible, ui, nevents, hw, call, env, refresh, gamepad_running, devVars, wlist, wmapped, wax,
                 wops, wbatch, timerVars, continuous_enabled, idleq, callback_thread>>

\* UICore.hide(): window.hide(), then stopThread(), whose stop_listen() clears the run flag
Hide ==
  /\ UiIdle /\ visible
  /\ visible' = FALSE
  /\ gamepad_running' = FALSE
  /\ ui' = StopThreadRest
  /\ UNCHANGED <<startPending, stopped, nstarts, nevents, hw, call, env, refresh, gamepad_thread, devVars, wVars,
                 timerVars, continuous_enabled, idleq, callback_thread>>

\* UICore.quit(): quit_mode is "hide", so it is hide(), whether the window is shown or not
Quit ==
  /\ UiIdle
  /\ visible' = FALSE
  /\ gamepad_running' = FALSE
  /\ ui' = StopThreadRest
  /\ UNCHANGED <<startPending, stopped, nstarts, nevents, hw, call, env, refresh, gamepad_thread, devVars,
                 wVars, timerVars, continuous_enabled, idleq, callback_thread>>

\* _stop_all_continuous_actions(), the for loop: source_remove of every timer of the table
StopAllRemove ==
  /\ ui # Empty /\ Head(ui) = "rm"
  /\ sources' = [i \in DOMAIN sources \ { continuous_timers[a] : a \in DOMAIN continuous_timers }
                   |-> sources[i]]
  /\ ui' = Tail(ui)
  /\ UNCHANGED <<visible, startPending, stopped, nstarts, nevents, hw, call, env, refresh, gamepad_thread,
                 gamepad_running, devVars, wVars, continuous_timers, continuous_callbacks,
                 continuous_enabled, idleq, callback_thread>>

\* _stop_all_continuous_actions(), the two clear() calls
StopAllClear ==
  /\ ui # Empty /\ Head(ui) = "clr"
  /\ continuous_timers' = EmptyMap
  /\ continuous_callbacks' = {}
  /\ ui' = Tail(ui)
  /\ UNCHANGED <<visible, startPending, stopped, nstarts, nevents, hw, call, env, refresh, gamepad_thread,
                 gamepad_running, devVars, wVars, sources, continuous_enabled, idleq,
                 callback_thread>>

\* stopThread() joining _gamepad_thread without the test for None
JoinNoTest ==
  /\ ui # Empty /\ Head(ui) = "join"
  /\ gamepad_thread # 0 /\ wpc[gamepad_thread] = "done"
  /\ gamepad_thread' = 0
  /\ stopped' = TRUE
  /\ ui' = Tail(ui)
  /\ UNCHANGED <<visible, startPending, nstarts, nevents, hw, call, env, refresh, gamepad_running, devVars, wVars,
                 timerVars, continuous_enabled, idleq, callback_thread>>

\* stopThread(), the end: join the thread of _gamepad_thread, if any, and forget it
Join ==
  /\ ui # Empty /\ Head(ui) = "join"
  /\ gamepad_thread # 0 => wpc[gamepad_thread] = "done"
  /\ gamepad_thread' = 0
  /\ stopped' = TRUE
  /\ ui' = Tail(ui)
  /\ UNCHANGED <<visible, startPending, nstarts, nevents, hw, call, env, refresh, gamepad_running, devVars, wVars,
                 timerVars, continuous_enabled, idleq, callback_thread>>

\* enable_continuous_actions()
EnableContinuous ==
  /\ UiIdle /\ ~continuous_enabled
  /\ continuous_enabled' = TRUE
  /\ UNCHANGED <<uiVars, nevents, hw, call, env, refresh, gamepad_thread, gamepad_running, devVars, wVars,
                 timerVars, idleq, callback_thread>>

\* disable_continuous_actions(): clears the flag, then _stop_all_continuous_actions()
DisableContinuous ==
  /\ UiIdle /\ continuous_enabled
  /\ continuous_enabled' = FALSE
  /\ ui' = << "rm", "clr" >>
  /\ UNCHANGED <<visible, startPending, stopped, nstarts, nevents, hw, call, env, refresh, gamepad_thread,
                 gamepad_running, devVars, wVars, timerVars, idleq, callback_thread>>

\* _continuous_action_tick(action, callback), run by the UI loop when a timeout is due
ContinuousActionTick ==
  /\ UiIdle
  /\ \E id \in DOMAIN sources :
       IF sources[id] \in DOMAIN continuous_timers
         THEN /\ Len(idleq) < MaxQueue
              /\ idleq' = Append(idleq, sources[id])
              /\ UNCHANGED sources
         ELSE /\ sources' = Del(sources, id)
              /\ UNCHANGED idleq
  /\ UNCHANGED <<uiVars, nevents, hw, call, env, refresh, gamepad_thread, gamepad_running, devVars, wVars,
                 continuous_timers, continuous_callbacks, continuous_enabled,
                 callback_thread>>

\* The UI loop runs the oldest idle call: the consumer callback with its action
IdleDispatch ==
  /\ UiIdle /\ idleq # Empty
  /\ idleq' = Tail(idleq)
  /\ callback_thread' = "ui"
  /\ UNCHANGED <<uiVars, nevents, hw, call, env, refresh, gamepad_thread, gamepad_running, devVars, wVars,
                 timerVars, continuous_enabled>>

\* ------------------------------------------------ UI thread, the refresh
\* UICore.show() where evdev is not available (start_gamepad() returns at once):
\* start_refresh() arms the 100 ms timeout of start_refreshers_idle
start_refresh ==
  /\ ~refresh.shown /\ refresh.nshows < MaxShows
  /\ refresh' = [refresh EXCEPT !.shown = TRUE, !.nshows = @ + 1, !.startIdle = @ + 1]
  /\ UNCHANGED <<programVarsNoRefresh, call>>

\* start_refreshers_idle(): r.start() for every task
start_refreshers_idle ==
  /\ refresh.startIdle > 0
  /\ refresh' = [refresh EXCEPT !.startIdle = @ - 1,
                                !.refreshers = [r \in Tasks |-> start(@[r])]]
  /\ UNCHANGED <<programVarsNoRefresh, call>>

\* UICore.hide() with no session to stop: stop_refresh() is r.stop() for every task
stop_refresh ==
  /\ refresh.shown
  /\ refresh' = [refresh EXCEPT !.shown = FALSE,
                                !.refreshers = [r \in Tasks |-> stop(@[r])]]
  /\ UNCHANGED <<programVarsNoRefresh, call>>

\* GLib runs a due timeout of task r: RefreshTask._tick()
Tick(r) ==
  /\ refresh.refreshers[r].ticks > 0
  /\ refresh' = [refresh EXCEPT !.refreshers[r] = _tick(@)]
  /\ UNCHANGED <<programVarsNoRefresh, call>>

\* --------------------------------------------------------- worker thread
Obj(w, p) == <<w, p>>
Node(o) == o[2]
\* The worker's for-loop has an element left (a Python list iterator sees appends)
HasNext(w) == widx[w] <= Len(heap[wlist[w]])
Current(w) == heap[wlist[w]][widx[w]]

\* open_devices(), one turn of its loop: a node that is no joystick is passed over;
\* for a joystick InputDevice(node) raises, or the new object is appended to
\* self._gamepad_devices
OpenDevice(w) ==
  /\ wpc[w] = "open" /\ widx[w] <= NumDevs
  /\ \E ok \in BOOLEAN :
       IF ok /\ widx[w] \in env.joysticks
         THEN /\ opened' = opened \cup {Obj(w, widx[w])}
              /\ heap' = [heap EXCEPT ![gamepad_devices] = Append(@, Obj(w, widx[w]))]
         ELSE UNCHANGED <<opened, heap>>
  /\ widx' = [widx EXCEPT ![w] = @ + 1]
  /\ UNCHANGED <<uiVars, nevents, hw, call, env, refresh, gamepad_thread, gamepad_running, gamepad_devices, grab,
                 wpc, wlist, wmapped, wax, wops, wbatch, timerVars, continuous_enabled, idleq,
                 callback_thread>>

\* evdev_loop() with the test of nb_devices() before the try: with no device the
\* thread ends without close_devices()
CheckDevicesReturn(w) ==
  /\ wpc[w] = "open" /\ widx[w] > NumDevs
  /\ IF Len(DevList) = 0
       THEN wpc' = [wpc EXCEPT ![w] = "done"]
       ELSE wpc' = [wpc EXCEPT ![w] = "listen"]
  /\ UNCHANGED <<uiVars, nevents, hw, call, env, refresh, gamepad_thread, gamepad_running, devVars, wlist,
                 widx, wmapped, wax, wops, wbatch, timerVars, continuous_enabled, idleq,
                 callback_thread>>

\* evdev_loop(): nb_devices() == 0 returns (to the finally), else listen() is entered
CheckDevices(w) ==
  /\ wpc[w] = "open" /\ widx[w] > NumDevs
  /\ IF Len(DevList) = 0
       THEN /\ wpc' = [wpc EXCEPT ![w] = "close"]
            /\ wlist' = [wlist EXCEPT ![w] = gamepad_devices]
            /\ widx' = [widx EXCEPT ![w] = 1]
       ELSE /\ wpc' = [wpc EXCEPT ![w] = "listen"]
            /\ UNCHANGED <<wlist, widx>>
  /\ UNCHANGED <<uiVars, nevents, hw, call, env, refresh, gamepad_thread, gamepad_running, devVars, wmapped, wax,
                 wops, wbatch, timerVars, continuous_enabled, idleq, callback_thread>>

\* listen(), lines 323 and 341: load_es_dbpads() or, with a device in the list,
\* get_mapping_axis_relaxed_values() raises
SetupRaises ==
  \/ load_es_dbpads(env.es_input).raised
  \/ DevList # Empty /\ get_mapping_axis_relaxed_values(env.cache, Caps).raised

\* listen(), lines 323-331: the mapping of each device of the session, for each
\* pair of es_input.cfg files and for the files of the run
SessionMappings ==
  [es_input \in EsInputs |->
     LET pads_configs == load_es_dbpads(es_input)
     IN  IF pads_configs.raised THEN EmptyMap ELSE DeviceMapping(pads_configs.res)]
SessionMapping == SessionMappings[env.es_input]

\* listen(), line 344: the axis codes of a mapping
MappedAxes(mapping) == IF "axis" \in DOMAIN mapping THEN DOMAIN mapping.axis ELSE {}
\* dev.absinfo(code).value of node p: the position the kernel holds for the axis; the
\* horizontal axis of the model's stick is never moved
AbsValue(p, code) ==
  IF <<"EV_ABS", code>> \in DOMAIN hw[p] THEN hw[p][<<"EV_ABS", code>>] ELSE 0

\* listen() with every axis state starting at 0 instead of the discretized
\* abs_info.value
SetupSessionNeutral(w) ==
  /\ wpc[w] = "listen"
  /\ IF SetupRaises
       THEN /\ wpc' = [wpc EXCEPT ![w] = "close"]
            /\ UNCHANGED <<wmapped, wax>>
       ELSE /\ wmapped' = [wmapped EXCEPT ![w] = [o \in Range(DevList) |-> SessionMapping]]
            /\ wax' = [wax EXCEPT ![w] =
                        [o \in Range(DevList) |-> [code \in MappedAxes(SessionMapping) |-> 0]]]
            /\ wpc' = [wpc EXCEPT ![w] = "grab"]
  /\ wlist' = [wlist EXCEPT ![w] = gamepad_devices]
  /\ widx' = [widx EXCEPT ![w] = 1]
  /\ UNCHANGED <<uiVars, nevents, hw, call, env, refresh, gamepad_thread, gamepad_running, devVars, wops, wbatch,
                 timerVars, continuous_enabled, idleq, callback_thread>>

\* listen(), lines 322-367: the mappings and the axis states of the devices of the
\* list; an exception of load_es_dbpads() or of get_mapping_axis_relaxed_values()
\* ends listen() and reaches the finally
SetupSession(w) ==
  /\ wpc[w] = "listen"
  /\ IF SetupRaises
       THEN /\ wpc' = [wpc EXCEPT ![w] = "close"]
            /\ UNCHANGED <<wmapped, wax>>
       ELSE /\ wmapped' = [wmapped EXCEPT ![w] = [o \in Range(DevList) |-> SessionMapping]]
            /\ wax' = [wax EXCEPT ![w] =
                        [o \in Range(DevList) |->
                           [code \in MappedAxes(SessionMapping) |->
                              Discretize(AbsValue(Node(o), code), axis_infos[code])]]]
            /\ wpc' = [wpc EXCEPT ![w] = "grab"]
  /\ wlist' = [wlist EXCEPT ![w] = gamepad_devices]
  /\ widx' = [widx EXCEPT ![w] = 1]
  /\ UNCHANGED <<uiVars, nevents, hw, call, env, refresh, gamepad_thread, gamepad_running, devVars, wops, wbatch, timerVars,
                 continuous_enabled, idleq, callback_thread>>

\* _grab_devices() with no try around device.grab(): a failing grab ends listen()
GrabDeviceFatal(w) ==
  /\ wpc[w] = "grab" /\ HasNext(w)
  /\ \E ok \in BOOLEAN :
       IF ok /\ Current(w) \in opened /\ grab[Node(Current(w))] = NoObj
         THEN /\ grab' = [grab EXCEPT ![Node(Current(w))] = Current(w)]
              /\ widx' = [widx EXCEPT ![w] = @ + 1]
              /\ UNCHANGED <<wpc, wlist>>
         ELSE /\ wpc' = [wpc EXCEPT ![w] = "close"]
              /\ wlist' = [wlist EXCEPT ![w] = gamepad_devices]
              /\ widx' = [widx EXCEPT ![w] = 1]
              /\ UNCHANGED grab
  /\ UNCHANGED <<uiVars, nevents, hw, call, env, refresh, gamepad_thread, gamepad_running, gamepad_devices,
                 heap, opened, wmapped, wax, wops, wbatch, timerVars, continuous_enabled,
                 idleq, callback_thread>>

\* _grab_devices(), one turn of its loop: device.grab() takes the node's grab, or
\* raises (descriptor closed, node grabbed already); the exception is swallowed
GrabDevice(w) ==
  /\ wpc[w] = "grab" /\ HasNext(w)
  /\ \E ok \in BOOLEAN :
       IF ok /\ Current(w) \in opened /\ grab[Node(Current(w))] = NoObj
         THEN grab' = [grab EXCEPT ![Node(Current(w))] = Current(w)]
         ELSE UNCHANGED grab
  /\ widx' = [widx EXCEPT ![w] = @ + 1]
  /\ UNCHANGED <<uiVars, nevents, hw, call, env, refresh, gamepad_thread, gamepad_running, gamepad_devices, heap,
                 opened, wpc, wlist, wmapped, wax, wops, wbatch, timerVars, continuous_enabled,
                 idleq, callback_thread>>

\* listen(), line 372: the run flag is set once the devices are grabbed
SetRunning(w) ==
  /\ wpc[w] = "grab" /\ ~HasNext(w)
  /\ gamepad_running' = TRUE
  /\ wpc' = [wpc EXCEPT ![w] = "loop"]
  /\ UNCHANGED <<uiVars, nevents, hw, call, env, refresh, gamepad_thread, devVars, widx, wlist, wmapped, wax, wops, wbatch,
                 timerVars, continuous_enabled, idleq, callback_thread>>

\* select() raises ValueError when a device of the list is closed
SelectRaises == \E o \in Range(DevList) : o \notin opened

\* listen(), the while loop ends: flag cleared, list empty, or select() raised
LoopExit(w) ==
  /\ wpc[w] = "loop" /\ wops[w] = Empty /\ wbatch[w] = Empty
  /\ ~gamepad_running \/ Len(DevList) = 0 \/ SelectRaises
  /\ wpc' = [wpc EXCEPT ![w] = "close"]
  /\ wlist' = [wlist EXCEPT ![w] = gamepad_devices]
  /\ widx' = [widx EXCEPT ![w] = 1]
  /\ UNCHANGED <<uiVars, nevents, hw, call, env, refresh, gamepad_thread, gamepad_running, devVars, wmapped, wax,
                 wops, wbatch, timerVars, continuous_enabled, idleq, callback_thread>>

\* A descriptor delivers events unless another descriptor holds the node's grab
Readable(o) == o \in opened /\ grab[Node(o)] \in {NoObj, o}

\* History: the statements of a hat release, marked with the direction name mapped
\* at the value the hat had before the event
WithPrevious(ops, event, previous) ==
  LET name == IF event.code \in DOMAIN Mapping.hat /\ previous \in DOMAIN Mapping.hat[event.code]
                THEN Mapping.hat[event.code][previous] ELSE ""
  IN  [i \in DOMAIN ops |->
         IF ops[i].op = "hatrel" THEN [ops[i] EXCEPT !.from = name] ELSE ops[i]]

\* _handle_event with one table of axis states for all the devices, keyed by the
\* code alone
HandleEventShared(w, o, event, previous) ==
  LET known == o \in DOMAIN wax[w] /\ event.code \in DOMAIN wax[w][o]
      h == _handle_event(wmapped[w][o], event, known,
                         IF known THEN wax[w][o][event.code] ELSE 0)
  IN  /\ wax' = IF known
                  THEN [wax EXCEPT ![w] =
                          [d \in DOMAIN @ |->
                             [c \in DOMAIN @[d] |-> IF c = event.code THEN h.ax ELSE @[d][c]]]]
                  ELSE wax
      /\ wops' = [wops EXCEPT ![w] = WithPrevious(h.ops, event, previous)]

\* listen(), line 388: one turn of the for loop over device.read(), entering
\* _handle_event with an event of device o; previous is the value the input had
HandleEvent(w, o, event, previous) ==
  LET known == o \in DOMAIN wax[w] /\ event.code \in DOMAIN wax[w][o]
      h == _handle_event(wmapped[w][o], event, known,
                         IF known THEN wax[w][o][event.code] ELSE 0)
  IN  /\ wax' = IF known THEN [wax EXCEPT ![w][o][event.code] = h.ax] ELSE wax
      /\ wops' = [wops EXCEPT ![w] = WithPrevious(h.ops, event, previous)]

\* listen(), one turn of the while loop: select() returns a ready device, device.read()
\* returns up to `batch` events of it (each a change of another input) and the first
\* one enters _handle_event; mappings[device.fd] raises KeyError for a device that was
\* appended to the list after the mappings were built, which drops what was read
ReadEvent(w, limit, events, batch) ==
  /\ wpc[w] = "loop" /\ wops[w] = Empty /\ wbatch[w] = Empty
  /\ gamepad_running /\ Len(DevList) # 0 /\ ~SelectRaises
  /\ \E o \in Range(DevList), event \in events, more \in {Empty} \cup { << e >> : e \in events } :
       /\ Len(more) < batch
       /\ nevents + 1 + Len(more) <= limit
       /\ nevents' = nevents + 1 + Len(more)
       /\ Readable(o)
       /\ hw[Node(o)][HwKey(event)] # event.value
       /\ \A i \in DOMAIN more : /\ HwKey(more[i]) # HwKey(event)
                                 /\ hw[Node(o)][HwKey(more[i])] # more[i].value
       /\ hw' = [hw EXCEPT ![Node(o)] =
                   [k \in DOMAIN @ |->
                      IF k = HwKey(event) THEN event.value
                      ELSE IF \E i \in DOMAIN more : k = HwKey(more[i])
                        THEN (CHOOSE e \in Range(more) : k = HwKey(e)).value
                      ELSE @[k]]]
       /\ IF o \in DOMAIN wmapped[w]
            THEN /\ HandleEvent(w, o, event, hw[Node(o)][HwKey(event)])
                 /\ wbatch' = [wbatch EXCEPT ![w] =
                                [i \in DOMAIN more |->
                                   [device |-> o, event |-> more[i],
                                    previous |-> hw[Node(o)][HwKey(more[i])]]]]
            ELSE UNCHANGED <<wax, wops, wbatch>>
  /\ UNCHANGED <<uiVars, gamepad_thread, gamepad_running, devVars, wpc, widx, wlist,
                 wmapped, timerVars, continuous_enabled, idleq, callback_thread, call, env, refresh>>

\* listen(), the for loop over device.read() goes on: the next event that was read
\* enters _handle_event
NextEvent(w) ==
  /\ wpc[w] = "loop" /\ wops[w] = Empty /\ wbatch[w] # Empty
  /\ HandleEvent(w, Head(wbatch[w]).device, Head(wbatch[w]).event, Head(wbatch[w]).previous)
  /\ wbatch' = [wbatch EXCEPT ![w] = Tail(@)]
  /\ UNCHANGED <<uiVars, nevents, hw, call, env, refresh, gamepad_thread, gamepad_running, devVars, wpc,
                 widx, wlist, wmapped, timerVars, continuous_enabled, idleq, callback_thread>>

\* close_devices(), one turn of its loop: ungrab() then close() in one try, so a
\* failing ungrab() (descriptor closed, or grab not held) skips the close()
CloseDevice(w) ==
  /\ wpc[w] = "close" /\ HasNext(w)
  /\ IF Current(w) \in opened /\ grab[Node(Current(w))] = Current(w)
       THEN /\ grab' = [grab EXCEPT ![Node(Current(w))] = NoObj]
            /\ opened' = opened \ {Current(w)}
       ELSE UNCHANGED <<grab, opened>>
  /\ widx' = [widx EXCEPT ![w] = @ + 1]
  /\ UNCHANGED <<uiVars, nevents, hw, call, env, refresh, gamepad_thread, gamepad_running, gamepad_devices, heap,
                 wpc, wlist, wmapped, wax, wops, wbatch, timerVars, continuous_enabled, idleq,
                 callback_thread>>

\* close_devices(), line 73: self._gamepad_devices = [] ; the thread ends
ResetDevices(w) ==
  /\ wpc[w] = "close" /\ ~HasNext(w)
  /\ heap' = Append(heap, Empty)
  /\ gamepad_devices' = Len(heap) + 1
  /\ wpc' = [wpc EXCEPT ![w] = "done"]
  /\ UNCHANGED <<uiVars, nevents, hw, call, env, refresh, gamepad_thread, gamepad_running, opened, grab, widx,
                 wlist, wmapped, wax, wops, wbatch, timerVars, continuous_enabled, idleq,
                 callback_thread>>

\* ------------------------------------- worker thread, inside _handle_event
Todo(w, o) == wpc[w] = "loop" /\ wops[w] # Empty /\ Head(wops[w]).op = o
Arg(w) == Head(wops[w]).a
Continue(w, ops) == wops' = [wops EXCEPT ![w] = ops \o Tail(@)] /\ UNCHANGED wbatch

\* A timer id GLib has not handed out to anything still referring to it
NewId ==
  LET used == (DOMAIN sources)
              \cup { continuous_timers[a] : a \in DOMAIN continuous_timers }
              \cup UNION { { wops[w][i].id : i \in DOMAIN wops[w] } \ {0} : w \in Workers }
      Free(i) == i \notin used /\ i > 0
  IN  CHOOSE i \in 1..(Cardinality(used) + 1) : Free(i) /\ \A j \in 1..(i - 1) : ~Free(j)

\* _start_continuous_action(action, callback): the statements after its entry
StartOps(action) == << Op("stop", action), Op("arm", action) >>

\* The button branch calling f_handle_gamepad_action(action) itself instead of
\* handing it to GLib.idle_add
PostActionDirect(w) ==
  /\ Todo(w, "post")
  /\ callback_thread' = "worker"
  /\ Continue(w, Empty)
  /\ UNCHANGED <<uiVars, nevents, hw, call, env, refresh, gamepad_thread, gamepad_running, devVars, wpc, widx,
                 wlist, wmapped, wax, timerVars, continuous_enabled, idleq>>

\* GLib.idle_add(f_handle_gamepad_action, action) of the button branch
PostAction(w) ==
  /\ Todo(w, "post")
  /\ idleq' = Append(idleq, Arg(w))
  /\ Continue(w, Empty)
  /\ UNCHANGED <<uiVars, nevents, hw, call, env, refresh, gamepad_thread, gamepad_running, devVars, wpc, widx,
                 wlist, wmapped, wax, timerVars, continuous_enabled, callback_thread>>

\* A press of a hat or axis direction (lines 407-414, 452-460, 485-492): a continuous
\* action when the flag is set and the name is repeatable, else one idle_add
PressAction(w) ==
  /\ Todo(w, "press")
  /\ IF continuous_enabled /\ _should_use_continuous_action(Arg(w))
       THEN /\ Continue(w, StartOps(actions[Arg(w)]))
            /\ UNCHANGED idleq
       ELSE /\ idleq' = Append(idleq, actions[Arg(w)])
            /\ Continue(w, Empty)
  /\ UNCHANGED <<uiVars, nevents, hw, call, env, refresh, gamepad_thread, gamepad_running, devVars, wpc, widx,
                 wlist, wmapped, wax, timerVars, continuous_enabled, callback_thread>>

\* The stops a hat release makes, in the order of the code's mapping
HatStops(code) ==
  LET mp == Mapping.hat[code]
      S(v) == IF v \in DOMAIN mp /\ mp[v] \in DOMAIN actions
                 /\ _should_use_continuous_action(mp[v])
                THEN << Op("stop", actions[mp[v]]) >> ELSE Empty
  IN  S(-1) \o S(1)

\* A hat release (lines 416-423): with the flag set, stop the action of every value
\* mapped for the code
HatRelease(w) ==
  /\ Todo(w, "hatrel")
  /\ IF continuous_enabled
       THEN Continue(w, [i \in DOMAIN HatStops(Head(wops[w]).id) |->
                           [HatStops(Head(wops[w]).id)[i] EXCEPT !.from = Head(wops[w]).from]])
       ELSE Continue(w, Empty)
  /\ UNCHANGED <<uiVars, nevents, hw, call, env, refresh, gamepad_thread, gamepad_running, devVars, wpc, widx,
                 wlist, wmapped, wax, timerVars, continuous_enabled, idleq, callback_thread>>

\* An axis release or supersession (lines 464-471, 476-481): with the flag set, stop
\* the old action
AxisRelease(w) ==
  /\ Todo(w, "axrel")
  /\ IF continuous_enabled /\ _should_use_continuous_action(Arg(w))
       THEN Continue(w, << Op("stop", actions[Arg(w)]) >>)
       ELSE Continue(w, Empty)
  /\ UNCHANGED <<uiVars, nevents, hw, call, env, refresh, gamepad_thread, gamepad_running, devVars, wpc, widx,
                 wlist, wmapped, wax, timerVars, continuous_enabled, idleq, callback_thread>>

\* _stop_continuous_action(action), lines 127-128 (and 130-131 when there is no timer)
StopContinuous(w) ==
  /\ Todo(w, "stop")
  /\ IF Arg(w) \in DOMAIN continuous_timers
       THEN /\ sources' = Del(sources, continuous_timers[Arg(w)])
            /\ Continue(w, << Op("del", Arg(w)) >>)
            /\ UNCHANGED continuous_callbacks
       ELSE /\ continuous_callbacks' = continuous_callbacks \ {Arg(w)}
            /\ Continue(w, Empty)
            /\ UNCHANGED sources
  /\ UNCHANGED <<uiVars, nevents, hw, call, env, refresh, gamepad_thread, gamepad_running, devVars, wpc, widx,
                 wlist, wmapped, wax, continuous_timers, continuous_enabled, idleq,
                 callback_thread>>

\* _stop_continuous_action(action), lines 129-131: del raises KeyError when the UI
\* thread has cleared the table meanwhile; the exception ends _handle_event and
\* the for loop over device.read() (the except of line 390 is outside that loop)
DelContinuous(w) ==
  /\ Todo(w, "del")
  /\ IF Arg(w) \in DOMAIN continuous_timers
       THEN /\ continuous_timers' = Del(continuous_timers, Arg(w))
            /\ continuous_callbacks' = continuous_callbacks \ {Arg(w)}
            /\ Continue(w, Empty)
       ELSE /\ wops' = [wops EXCEPT ![w] = Empty]
            /\ wbatch' = [wbatch EXCEPT ![w] = Empty]
            /\ UNCHANGED <<continuous_timers, continuous_callbacks>>
  /\ UNCHANGED <<uiVars, nevents, hw, call, env, refresh, gamepad_thread, gamepad_running, devVars, wpc, widx,
                 wlist, wmapped, wax, sources, continuous_enabled, idleq, callback_thread>>

\* _start_continuous_action(), lines 84-97: the immediate idle_add, then timeout_add
ArmContinuous(w) ==
  /\ Todo(w, "arm")
  /\ idleq' = Append(idleq, Arg(w))
  /\ sources' = Put(sources, NewId, Arg(w))
  /\ Continue(w, << [op |-> "store", a |-> Arg(w), id |-> NewId, from |-> ""] >>)
  /\ UNCHANGED <<uiVars, nevents, hw, call, env, refresh, gamepad_thread, gamepad_running, devVars, wpc, widx,
                 wlist, wmapped, wax, continuous_timers, continuous_callbacks,
                 continuous_enabled, callback_thread>>

\* _start_continuous_action(), lines 98-99: the timer id and the callback are recorded
StoreContinuous(w) ==
  /\ Todo(w, "store")
  /\ continuous_timers' = Put(continuous_timers, Arg(w), Head(wops[w]).id)
  /\ continuous_callbacks' = continuous_callbacks \cup {Arg(w)}
  /\ Continue(w, Empty)
  /\ UNCHANGED <<uiVars, nevents, hw, call, env, refresh, gamepad_thread, gamepad_running, devVars, wpc, widx,
                 wlist, wmapped, wax, sources, continuous_enabled, idleq, callback_thread>>

\* ------------------------------------------- calls of the static functions
\* The samples, the ranges and the documents the functions are called with.
Zones == {-1, 0, 1}
DecodeSamples ==
  { AbsMin, axis_infos[1].bornemin - 1, axis_infos[1].bornemin, 0,
    axis_infos[1].bornemax, axis_infos[1].bornemax + 1, AbsMax }
Ranges == { <<AbsMin, AbsMax>>, <<0, 255>>, <<0, 1023>>, <<-127, 127>>, <<0, 65535>> }
RangeSamples(min, max) ==
  { min, min + 1, min + ((max - min) \div 4) - 1, min + ((max - min) \div 4), 0,
    (max + min) \div 2, ((max + min) \div 2) + 1,
    max - ((max - min) \div 4), max - ((max - min) \div 4) + 1, max }
Words == { 0, 1, 3, 255, 256, 1118, 65535 }
HatInputs == { Input(n, "hat", i, 0, 1) : n \in {"up", "down", "left", "right"}, i \in {0, 1} }
AxisInputs ==
  { Input(n, "axis", 0, c, v) :
      n \in {"joystick1left", "joystick1up", "joystick2left", "joystick2up", "l2"},
      c \in {0, 1}, v \in {-1, 1} }
ButtonInputs == { Input(n, "button", 0, 304, 1) : n \in {"a", "b"} }
Inputs == HatInputs \cup AxisInputs \cup ButtonInputs
InputLists == { << i >> : i \in Inputs } \cup { << i, j >> : i \in Inputs, j \in Inputs }
Elements == { Element(g, n, Empty) : g \in {"guid1", "guid2"}, n \in {"pad1", "pad2"} }
Documents ==
  { Empty } \cup { << e >> : e \in Elements } \cup { << e, f >> : e \in Elements, f \in Elements }
DocumentLists ==
  { Empty } \cup { << d >> : d \in Documents } \cup { << d, e >> : d \in Documents, e \in Documents }

\* _handle_event() on an axis event of the model's stick
CallHandleEvent ==
  /\ call = NoCall
  /\ \E value \in DecodeSamples, old \in Zones :
       call' = [fn |-> "_handle_event", value |-> value, old |-> old,
                res |-> _handle_event(Mapping, Ev("EV_ABS", 1, value), TRUE, old)]
  /\ UNCHANGED programVars

\* listen(): the bounds of an axis and the discretization of a sample
CallAxisBounds ==
  /\ call = NoCall
  /\ \E r \in Ranges, centered \in BOOLEAN :
       \E sample \in RangeSamples(r[1], r[2]) :
         call' = [fn |-> "axis_bounds", min |-> r[1], max |-> r[2], centered |-> centered,
                  sample |-> sample,
                  res |-> AxisBounds(r[1], r[2], centered),
                  zone |-> Discretize(sample, AxisBounds(r[1], r[2], centered))]
  /\ UNCHANGED programVars

\* The input names of es_input.cfg the decoding is called with
EsNames ==
  { "a", "b", "x", "y", "start", "select", "hotkey", "pageup", "pagedown", "l2", "r2",
    "up", "down", "left", "right",
    "joystick1up", "joystick1down", "joystick1left", "joystick1right",
    "joystick2up", "joystick2down", "joystick2left", "joystick2right" }
\* The raw values of an event of each kind: a key (2 is the autorepeat), a hat, a stick
RawValues ==
  [ button |-> {0, 1, 2}, hat |-> {-1, 0, 1}, axis |-> {AbsMin, 0, AbsMax} ]

\* _handle_event() on an event of an input mapped to one name at the value 1, the
\* axis at rest before
CallHandleInput ==
  /\ call = NoCall
  /\ \E name \in EsNames, kind \in {"button", "hat", "axis"} :
       \E value \in RawValues[kind] :
         LET mapping == CASE kind = "button" -> [button |-> (304 :> (1 :> name))]
                          [] kind = "hat"    -> [hat |-> (17 :> (1 :> name))]
                          [] kind = "axis"   -> [axis |-> (1 :> (1 :> name))]
             event == CASE kind = "button" -> Ev("EV_KEY", 304, value)
                        [] kind = "hat"    -> Ev("EV_ABS", 17, value)
                        [] kind = "axis"   -> Ev("EV_ABS", 1, value)
         IN  call' = [fn |-> "handle_input", kind |-> kind, name |-> name, value |-> value,
                      res |-> _handle_event(mapping, event, TRUE, 0)]
  /\ UNCHANGED programVars

\* The rest samples, the cache files and the capability lists the calibration is
\* called with
RestSamples == { -32768, -4001, -4000, -3999, 0, 3999, 4000, 4001, 32767 }
CallCacheFiles ==
  CacheFiles
  \cup { File(<< Line(2), Line(a), Line(b) >>) : a \in RestSamples, b \in RestSamples }
  \cup { File(<< Line(3), Line(0), Line(a), Line(32767), Line(0) >>) : a \in RestSamples }
  \cup { File(Empty), File(<< BadLine >>), File(<< Line(0) >>), File(<< Line(-1) >>),
         File(<< Line(2), Line(0), Line(0), BadLine >>) }
CapsLists == { Caps, << 0, 1, 2, 16, 17 >>, << 16, 17 >>, << 1 >> }

\* listen(), lines 341-356: get_mapping_axis_relaxed_values() and the bounds of one
\* axis code of the mapping
CallAxisSetup ==
  /\ call = NoCall
  /\ \E cache \in CallCacheFiles, caps \in CapsLists, code \in {0, 1, 2, 17}, r \in Ranges :
       LET relaxValues == get_mapping_axis_relaxed_values(cache, caps)
       IN  call' = [fn |-> "axis_setup", cache |-> cache, caps |-> caps, code |-> code,
                    min |-> r[1], max |-> r[2], relaxValues |-> relaxValues,
                    res |-> IF relaxValues.raised THEN Raised
                            ELSE Returned(AxisBounds(r[1], r[2],
                                                     Centered(relaxValues.res, code)))]
  /\ UNCHANGED programVars

\* compute_guid()
CallComputeGuid ==
  /\ call = NoCall
  /\ \E bus \in Words, vendor \in Words, product \in Words, version \in Words :
       call' = [fn |-> "compute_guid", bus |-> bus, vendor |-> vendor,
                product |-> product, version |-> version,
                res |-> compute_guid(bus, vendor, product, version)]
  /\ UNCHANGED programVars

\* _find_input_config() for the pad "pad1" with the identifier "guid1"
CallFindInputConfig ==
  /\ call = NoCall
  /\ \E pads_configs \in DocumentLists :
       call' = [fn |-> "_find_input_config", pads_configs |-> pads_configs,
                name |-> "pad1", guid |-> "guid1",
                res |-> _find_input_config(pads_configs, "pad1", "guid1")]
  /\ UNCHANGED programVars

\* _find_best_controller_mapping() on one document with the element of the pad
CallFindMapping ==
  /\ call = NoCall
  /\ \E inputs \in InputLists :
       call' = [fn |-> "_find_best_controller_mapping", inputs |-> inputs,
                res |-> _find_best_controller_mapping(
                          << << Element(compute_guid(3, 1118, 654, 272), "pad1", inputs) >> >>,
                          "pad1", 3, 1118, 654, 272)]
  /\ UNCHANGED programVars

\* ------------------------------------------------------- specifications
\* The UI thread's part in a session: show/hide/quit, stopThread(), the idle calls
SessionUi ==
  \/ StartGamepadDelayed \/ Hide \/ Quit
  \/ StopAllRemove \/ StopAllClear \/ Join
  \/ IdleDispatch

\* The UI thread's part in continuous actions: the document viewer opens and closes
\* (enable/disable), and the timers tick
ViewerUi ==
  \/ EnableContinuous \/ DisableContinuous \/ ContinuousActionTick

\* evdev_loop(), and _handle_event() up to the start or stop of a continuous action
WorkerStep(w) ==
  \/ OpenDevice(w) \/ CheckDevices(w) \/ SetupSession(w)
  \/ GrabDevice(w) \/ SetRunning(w) \/ LoopExit(w)
  \/ CloseDevice(w) \/ ResetDevices(w)
  \/ PostAction(w) \/ PressAction(w) \/ HatRelease(w) \/ AxisRelease(w)

\* _start_continuous_action() and _stop_continuous_action() run by the worker
TimerStep(w) ==
  \/ StopContinuous(w) \/ DelContinuous(w) \/ ArmContinuous(w) \/ StoreContinuous(w)

\* The sessions of the program: up to MaxStarts threads, the document viewer never
\* opened (continuous actions stay disabled)
Next ==
  \/ Show(MaxStarts)
  \/ SessionUi
  \/ \E w \in Workers : WorkerStep(w) \/ ReadEvent(w, MaxEvents, Events, 1)

Spec == Init /\ [][Next]_vars

\* One session of the program with the document viewer opening and closing
NextT ==
  \/ Show(MaxStartsT)
  \/ SessionUi \/ ViewerUi
  \/ \E w \in Workers : WorkerStep(w) \/ TimerStep(w) \/ ReadEvent(w, MaxEventsT, Events, 1)

TimerSpec == Init /\ [][NextT]_vars

\* One session on any of the environments: any set of pads, any of the files
NextE ==
  \/ Show(MaxStartsT)
  \/ SessionUi \/ ViewerUi
  \/ \E w \in Workers : WorkerStep(w) \/ TimerStep(w) \/ ReadEvent(w, MaxEventsE, Events, 1)

EnvSpec == InitAny /\ [][NextE]_vars

\* One session in which device.read() returns up to MaxBatch events at a time
NextB ==
  \/ Show(MaxStartsT)
  \/ SessionUi \/ ViewerUi
  \/ \E w \in Workers :
       \/ WorkerStep(w) \/ TimerStep(w)
       \/ ReadEvent(w, MaxEventsB, Events, MaxBatch) \/ NextEvent(w)

BatchSpec == Init /\ [][NextB]_vars

\* The static functions and the decoding, one call on inputs of the sets above
NextF ==
  \/ CallHandleEvent \/ CallAxisBounds \/ CallComputeGuid
  \/ CallFindInputConfig \/ CallFindMapping
  \/ CallHandleInput \/ CallAxisSetup

FunctionSpec == Init /\ [][NextF]_vars

\* The refresh tasks of a window that is shown and hidden
NextR ==
  \/ start_refresh \/ start_refreshers_idle \/ stop_refresh
  \/ \E r \in Tasks : Tick(r)

RefreshSpec == Init /\ [][NextR]_vars

\* The scheduler runs every thread that can take a step: the UI thread inside a
\* call, and each worker (reading an event needs the hardware to send one).
FairTimerSpec ==
  /\ TimerSpec
  /\ WF_vars(StopAllRemove \/ StopAllClear \/ Join)
  /\ \A w \in Workers : WF_vars(WorkerStep(w) \/ TimerStep(w))

\* ------------------------------------------------------------------ claims
InStopThread == ui # Empty /\ ui[Len(ui)] = "join"
Alive(w) == wpc[w] \notin {"none", "done"}
LiveTimers(action) == { id \in DOMAIN sources : sources[id] = action }

\* C1: whenever stopThread() is called after startThread(), at any point of the
\* worker's progress, the worker leaves its loop and stopThread() returns.
C1_StopThreadReturns == InStopThread ~> ~InStopThread

\* C2: when stopThread() returns, every device the session had grabbed has been
\* ungrabbed.
C2_UngrabbedAtReturn ==
  [][(InStopThread /\ ~InStopThread') => (\A p \in Phys : grab'[p] = NoObj)]_vars

\* C3: at session stop every device the worker opened is closed, also one whose
\* grab never succeeded.
C3_AllClosedAtStop ==
  \A w \in Workers : wpc[w] = "done" => \A o \in opened : o[1] # w

\* C4: after stopThread() has returned, the timer table is empty and no continuous
\* timer is live.
C4_NoTimerAfterStop ==
  stopped => (continuous_timers = EmptyMap /\ sources = EmptyMap)

\* C5: the worker thread never arms or cancels a timer and never changes the timer
\* table: every change of them is a step of the UI thread.
C5_TimersOnlyOnUiLoop ==
  [][timerVars' # timerVars => wops' = wops]_vars

\* C6: the consumer callback is run by the UI loop only, never by a worker.
C6_CallbackOnUiLoop == callback_thread \in {"none", "ui"}

\* A continuous action was started by the worker, its timer ticked, and the UI
\* loop ran the callback.
C6_Witness ==
  /\ callback_thread = "ui"
  /\ \E a \in DOMAIN continuous_timers : LiveTimers(a) # {}
  /\ idleq = Empty

\* C7: at any time at most one worker thread is alive.
C7_OneWorker == Cardinality({ w \in Workers : Alive(w) }) <= 1

\* C8: in every reachable state there is at most one live timer per action name.
C8_OneTimerPerAction ==
  \A id1, id2 \in DOMAIN sources : sources[id1] = sources[id2] => id1 = id2

\* Every direction of node p is released: the last event of the hat and of the stick
\* was the neutral one
Released(p) ==
  /\ hw[p][<<"EV_ABS", 17>>] = 0
  /\ Discretize(hw[p][<<"EV_ABS", 1>>], axis_infos[1]) = 0
WorkersIdle == \A w \in Workers : wops[w] = Empty

\* C9: once the release of a direction is processed its timer is cancelled and
\* no later tick posts the action: with every direction released and its event
\* handled, no action is left in the timer table.
C9_ReleaseStopsRepeats ==
  (UiIdle /\ WorkersIdle /\ \A p \in Phys : Released(p)) => continuous_timers = EmptyMap

\* C10: whenever continuous actions are disabled (disable_continuous_actions() has
\* returned) no continuous timer is live.
C10_NoTimerWhileDisabled ==
  (~continuous_enabled /\ UiIdle) => sources = EmptyMap

\* The position of node p's stick, discretized
StickZone(p) == Discretize(hw[p][<<"EV_ABS", 1>>], axis_infos[1])

C16_HatReleaseOnlyPrevious ==
  [][\A w \in Workers :
       (/\ Todo(w, "stop") /\ Head(wops[w]).from # ""
        /\ wops'[w] # wops[w] /\ sources' # sources)
       => Arg(w) = actions[Head(wops[w]).from]]_vars

\* C17: when the hat goes from one direction to the other with no neutral event,
\* the superseded action's timer is cancelled: with the hat held in one direction
\* and the stick at rest, the action of the opposite direction has no live timer.
C17_SupersededCancelled ==
  \A p \in Phys : \A v \in {-1, 1} :
    (/\ UiIdle /\ WorkersIdle /\ continuous_enabled
     /\ hw[p][<<"EV_ABS", 17>>] = v /\ StickZone(p) = 0)
    => LiveTimers(actions[Mapping.hat[17][-v]]) = {}

\* C11: for a mapped axis, 0 to +/-1 emits the press of the action mapped at the new
\* value, +/-1 to 0 the release of the action mapped at the old value, and a flip
\* the release of the old action and then the press of the new one.
C11_AxisTransitions ==
  call.fn = "_handle_event" =>
    LET new == Discretize(call.value, axis_infos[1])
        old == call.old
        mp  == Mapping.axis[1]
    IN  /\ call.res.ax = new
        /\ (old = 0 /\ new # 0) => call.res.ops = << Op("press", mp[new]) >>
        /\ (old # 0 /\ new = 0) => call.res.ops = << Op("axrel", mp[old]) >>
        /\ (old # 0 /\ new # 0 /\ new # old) =>
             call.res.ops = << Op("axrel", mp[old]), Op("press", mp[new]) >>

\* The stick goes from up to down in one event.
C11_Witness ==
  /\ call.fn = "_handle_event"
  /\ call.old = -1 /\ call.value = AbsMax
  /\ Len(call.res.ops) = 2 /\ call.res.ops[2].a = "joystick1down"

\* C12: a sample that discretizes to the stored nonzero state emits nothing, and a
\* press is emitted only by a sample whose discretized value differs from the state.
C12_NoRepeatedPress ==
  call.fn = "_handle_event" =>
    LET new == Discretize(call.value, axis_infos[1])
    IN  /\ new = call.old => (call.res.ops = Empty /\ call.res.ax = call.old)
        /\ \A i \in DOMAIN call.res.ops : call.res.ops[i].op = "press" => new # call.old

\* The stick is held up and sends another sample of the same zone.
C12_Witness ==
  /\ call.fn = "_handle_event"
  /\ call.old = -1 /\ call.value = axis_infos[1].bornemin - 1
  /\ call.res.ops = Empty

\* C14: centered: low = min + (max-min) div 4, high = max - (max-min) div 4;
\* non-centered: low = min - 1, high = (min+max) div 2, no sample is -1;
\* a sample is -1 iff below low, +1 iff above high, else 0.
C14_BoundsAndZones ==
  call.fn = "axis_bounds" =>
    LET quarter == (call.max - call.min) \div 4
    IN  /\ call.centered => /\ call.res.bornemin = call.min + quarter
                           /\ call.res.bornemax = call.max - quarter
        /\ ~call.centered => /\ call.res.bornemin = call.min - 1
                            /\ call.res.bornemax = (call.min + call.max) \div 2
                            /\ call.zone # -1
        /\ call.zone = -1 <=> call.sample < call.res.bornemin
        /\ call.zone = 1 <=> call.sample > call.res.bornemax
        /\ call.zone \in {-1, 0, 1}
        /\ (call.centered /\ call.min = -32768 /\ call.max = 32767 /\ call.sample = 0)
             => call.zone = 0

\* A centered axis of the range [-32768, 32767]: the sample just below low is -1.
C14_Witness ==
  /\ call.fn = "axis_bounds" /\ call.centered
  /\ call.min = -32768 /\ call.max = 32767
  /\ call.sample = -16386 /\ call.zone = -1

\* C15: a hat entry of hat index h is stored under the code 16 + 2*h + (1 if the
\* direction is up/down else 0), with the value -1 for up/left and +1 otherwise.
C15_HatCodes ==
  call.fn = "_find_best_controller_mapping" =>
    \A i \in DOMAIN call.inputs :
      LET e     == call.inputs[i]
          code  == 16 + 2 * e.id + (IF e.name \in {"up", "down"} THEN 1 ELSE 0)
          value == IF e.name \in {"up", "left"} THEN -1 ELSE 1
      IN  e.type = "hat" =>
            /\ "hat" \in DOMAIN call.res
            /\ code \in DOMAIN call.res.hat
            /\ value \in DOMAIN call.res.hat[code]
            /\ call.res.hat[code][value] = e.name

\* The elements of the documents whose attributes satisfy a tier of the lookup
Matches(pads_configs, tier, name, guid) ==
  { x \in (1..2) \X (1..2) :
      /\ x[1] \in DOMAIN pads_configs /\ x[2] \in DOMAIN pads_configs[x[1]]
      /\ LET el == pads_configs[x[1]][x[2]]
         IN  CASE tier = "both" -> el.deviceGUID = guid /\ el.deviceName = name
               [] tier = "guid" -> el.deviceGUID = guid
               [] tier = "name" -> el.deviceName = name }
Earliest(hits) ==
  CHOOSE x \in hits : \A y \in hits : x[1] < y[1] \/ (x[1] = y[1] /\ x[2] <= y[2])

\* C18: a match of identifier and name in any document is preferred to a match of
\* the identifier in any document, which is preferred to a match of the name;
\* within a tier the earliest document wins; no mapping only when no tier matches.
C18_LookupPrecedence ==
  call.fn = "_find_input_config" =>
    LET both  == Matches(call.pads_configs, "both", call.name, call.guid)
        guids == Matches(call.pads_configs, "guid", call.name, call.guid)
        names == Matches(call.pads_configs, "name", call.name, call.guid)
    IN  call.res = IF both # {} THEN Earliest(both)
                   ELSE IF guids # {} THEN Earliest(guids)
                   ELSE IF names # {} THEN Earliest(names)
                   ELSE NoElement

\* The first document matches the identifier only, the second one identifier and name.
C18_Witness ==
  /\ call.fn = "_find_input_config"
  /\ Len(call.pads_configs) = 2
  /\ \E i \in DOMAIN call.pads_configs[1] :
       /\ call.pads_configs[1][i].deviceGUID = call.guid
       /\ call.pads_configs[1][i].deviceName # call.name
  /\ call.res[1] = 2

\* C19: an axis code with one declared entry (c, v) named joystick1left, joystick1up,
\* joystick2left or joystick2up resolves (c, v) to that name and (c, -v) to
\* joystick1right, joystick1down, joystick2right, joystick2down respectively.
C19_OtherSideAdded ==
  call.fn = "_find_best_controller_mapping" =>
    \A i \in DOMAIN call.inputs :
      LET e == call.inputs[i]
          opposite == [ joystick1left |-> "joystick1right", joystick1up |-> "joystick1down",
                        joystick2left |-> "joystick2right", joystick2up |-> "joystick2down" ]
      IN  (/\ e.type = "axis" /\ e.name \in DOMAIN opposite
           /\ \A j \in DOMAIN call.inputs \ {i} :
                ~(call.inputs[j].type = "axis" /\ call.inputs[j].code = e.code))
          => /\ DOMAIN call.res.axis[e.code] = {e.value, -e.value}
             /\ call.res.axis[e.code][e.value] = e.name
             /\ call.res.axis[e.code][-e.value] = opposite[e.name]

\* Only joystick1left is declared, at -1: +1 resolves to joystick1right.
C19_Witness ==
  /\ call.fn = "_find_best_controller_mapping"
  /\ call.inputs = << Input("joystick1left", "axis", 0, 0, -1) >>
  /\ call.res.axis[0][1] = "joystick1right"

\* The byte a pair of hexadecimal digits of the string stands for
ByteAt(str, k) ==
  LET Digit(c) == CHOOSE n \in 0..15 : Hex[n + 1] = c
  IN  16 * Digit(str[2 * k - 1]) + Digit(str[2 * k])

\* C20: for arguments in 0..65535 compute_guid returns 16 bytes: each field as two
\* little-endian bytes followed by two zero bytes, in the order bus, vendor,
\* product, version.
C20_GuidLayout ==
  call.fn = "compute_guid" =>
    /\ Len(call.res) = 32
    /\ [k \in 1..16 |-> ByteAt(call.res, k)] =
         << call.bus % 256, call.bus \div 256, 0, 0,
            call.vendor % 256, call.vendor \div 256, 0, 0,
            call.product % 256, call.product \div 256, 0, 0,
            call.version % 256, call.version \div 256, 0, 0 >>

\* The vendor 0x045e is written 5e04.
C20_Witness ==
  /\ call.fn = "compute_guid" /\ call.vendor = 1118
  /\ SubSeq(call.res, 9, 12) = << "5", "e", "0", "4" >>

\* ------------------------------------------------ claims on the environment
\* An element of a document of es_input.cfg has the pad's name or identifier
Matched ==
  \E i \in DOMAIN env.es_input :
    /\ env.es_input[i].exists
    /\ \E j \in DOMAIN env.es_input[i].root :
         \/ env.es_input[i].root[j].deviceName = PadName
         \/ env.es_input[i].root[j].deviceGUID =
              compute_guid(PadBus, PadVendor, PadProduct, PadVersion)
\* Both es_input.cfg files are absent or well-formed
DocumentsParse == \A i \in DOMAIN env.es_input : env.es_input[i].exists => env.es_input[i].parses
\* The cache file is absent or holds its count and a sample for each axis
CacheParses == env.cache \in { NoFile, CenteredFile, TriggerFile }
\* The mappings listen() holds for node p's pad are all empty
Unmapped(p) ==
  \A w \in Workers : \A o \in DOMAIN wmapped[w] : Node(o) = p => wmapped[w][o] = EmptyMap

\* C21: a device that no document matches gets an empty mapping, the session goes
\* on to the grab and the read loop, and reading an event of that device posts no
\* action, arms no timer and leaves nothing to do for the worker.
C21_UnmatchedDeviceSilent ==
  [][/\ \A w \in Workers :
          (/\ wpc[w] = "listen" /\ wpc'[w] # "listen"
           /\ ~Matched /\ DocumentsParse /\ CacheParses)
          => /\ wpc'[w] = "grab"
             /\ \A o \in DOMAIN wmapped'[w] : wmapped'[w][o] = EmptyMap
     /\ \A p \in Phys :
          (hw'[p] # hw[p] /\ Unmapped(p))
          => /\ wops' = wops /\ idleq' = idleq
             /\ sources' = sources /\ continuous_timers' = continuous_timers]_vars

\* The session of a pad no document matches is in its read loop and has read events,
\* with continuous actions enabled.
C21_Witness ==
  /\ ~Matched /\ continuous_enabled /\ nevents = MaxEventsE
  /\ \E w \in Workers :
       /\ wpc[w] = "loop" /\ gamepad_running
       /\ \E o \in DOMAIN wmapped[w] : wmapped[w][o] = EmptyMap /\ Readable(o)

\* C22: when a mapping document is missing or cannot be parsed, session start still
\* completes: the worker leaves the setup of listen() for the grab of the devices,
\* not for the end of the session.
C22_DocumentsNeverFatal ==
  [][\A w \in Workers :
       (/\ wpc[w] = "listen" /\ wpc'[w] # "listen" /\ CacheParses
        /\ \E i \in DOMAIN env.es_input : ~env.es_input[i].exists \/ ~env.es_input[i].parses)
       => wpc'[w] = "grab"]_vars

\* C23: a failing open or grab stays with its device. open_devices() goes through
\* every node and the worker leaves it for the cleanup only with an empty list;
\* _grab_devices() goes through every device of the list and the worker then enters
\* the loop; and a button press read from a device of the session is decoded into its
\* action whether the device holds its grab or not.
C23_DeviceFailuresLocal ==
  [][/\ \A w \in Workers :
          /\ (wpc[w] = "open" /\ wpc'[w] = "open" /\ widx'[w] # widx[w])
               => widx'[w] = widx[w] + 1
          /\ (wpc[w] = "open" /\ wpc'[w] # "open")
               => /\ widx[w] > NumDevs
                  /\ wpc'[w] = IF DevList = Empty THEN "close" ELSE "listen"
          /\ wpc[w] = "grab"
               => /\ wpc'[w] \in {"grab", "loop"}
                  /\ (wpc'[w] = "grab" /\ widx'[w] # widx[w]) => widx'[w] = widx[w] + 1
                  /\ wpc'[w] = "loop" => widx[w] > Len(heap[wlist[w]])
     /\ \A p \in Phys :
          (/\ hw[p][<<"EV_KEY", 304>>] = 0 /\ hw'[p][<<"EV_KEY", 304>>] = 1
           /\ \A w \in Workers : wpc[w] = "loop" =>
                \A o \in Range(DevList) : o \in DOMAIN wmapped[w] /\ wmapped[w][o] = Mapping)
          => \E w \in Workers : wops'[w] = << Op("post", "activate") >>]_vars

\* Two pads: the open of the first failed, the grab of the second failed, and a
\* button press of the second was read and posted as an action.
C23_Witness ==
  /\ {1, 2} \subseteq env.joysticks
  /\ \E w \in Workers :
       /\ wpc[w] = "loop" /\ wops[w] = Empty
       /\ Obj(w, 1) \notin opened /\ Obj(w, 1) \notin Range(DevList)
       /\ Obj(w, 2) \in Range(DevList) /\ grab[2] = NoObj
       /\ hw[2][<<"EV_KEY", 304>>] = 1
       /\ idleq = << "activate" >>

\* C24: an exception raised while one event is decoded leaves the worker in its
\* loop and loses no other event: an event device.read() has returned leaves the
\* worker's batch only by being handed to _handle_event.
C24_NoOtherEventLost ==
  [][\A w \in Workers :
       /\ (wpc[w] = "loop" /\ wops[w] # Empty) => wpc'[w] = "loop"
       /\ wbatch'[w] # wbatch[w]
            => \/ wbatch[w] = Empty
               \/ wops[w] = Empty /\ wbatch'[w] = Tail(wbatch[w])]_vars

Vocabulary ==
  { "activate", "back", "axis_up", "axis_down", "axis_left", "axis_right",
    "pan_up", "pan_down", "pan_left", "pan_right", "next_tab", "previous_tab" }
NamesWithAction ==
  { "a", "b", "pageup", "pagedown", "up", "down", "left", "right",
    "joystick1up", "joystick1down", "joystick1left", "joystick1right",
    "joystick2up", "joystick2down", "joystick2left", "joystick2right" }

\* C26: every string the decoding hands to the callback (at once, or through a
\* press) is one of the twelve of the vocabulary, and a mapped input whose name has
\* no entry in the action table posts nothing.
C26_FixedVocabulary ==
  call.fn = "handle_input" =>
    /\ \A i \in DOMAIN call.res.ops :
         /\ call.res.ops[i].op = "post" => call.res.ops[i].a \in Vocabulary
         /\ call.res.ops[i].op = "press" =>
              /\ call.res.ops[i].a \in DOMAIN actions
              /\ actions[call.res.ops[i].a] \in Vocabulary
    /\ call.name \notin NamesWithAction =>
         \A i \in DOMAIN call.res.ops : call.res.ops[i].op \notin {"post", "press"}

\* The press of a button mapped to "start", a name with no action, posts nothing.
C26_Witness ==
  /\ call.fn = "handle_input" /\ call.kind = "button" /\ call.name = "start"
  /\ call.value = 1 /\ call.res.ops = Empty

\* C30: a button event with a nonzero raw value on a mapped code posts the mapped
\* action exactly once, whichever the nonzero value; one with the value 0 posts
\* nothing.
C30_ButtonAnyNonzero ==
  (call.fn = "handle_input" /\ call.kind = "button" /\ call.name \in NamesWithAction) =>
    /\ call.value # 0 => call.res.ops = << Op("post", actions[call.name]) >>
    /\ call.value = 0 => call.res.ops = Empty

\* C27: a calibration file that is present but short or malformed does not prevent
\* the session from starting: the worker leaves the setup of listen() for the grab
\* of the devices, not for the end of the session.
C27_CalibrationNeverFatal ==
  [][\A w \in Workers :
       (/\ wpc[w] = "listen" /\ wpc'[w] # "listen"
        /\ DocumentsParse /\ env.cache.exists)
       => wpc'[w] = "grab"]_vars

\* C28: with no calibration file, or no calibration entry for the axis code, the
\* axis gets the bounds low = min - 1, high = center; it gets the quarter-range
\* bounds only when its calibration entry is centered.
C28_MissingCalibrationNotCentered ==
  (call.fn = "axis_setup" /\ ~call.res.raised) =>
    LET center  == (call.max + call.min) \div 2
        quarter == (call.max - call.min) \div 4
        entry   == call.code \in DOMAIN call.relaxValues.res
        wide    == [bornemin |-> call.min - 1, bornemax |-> center]
        narrow  == [bornemin |-> call.min + quarter, bornemax |-> call.max - quarter]
    IN  /\ ~call.cache.exists => call.res.res = wide
        /\ ~entry => call.res.res = wide
        /\ call.res.res = narrow => (entry /\ call.relaxValues.res[call.code].centered)
        /\ (entry /\ call.relaxValues.res[call.code].centered) => call.res.res = narrow
        /\ call.res.res \in {wide, narrow}

\* A pad with a cache file and an axis code the file has no sample for (a hat code
\* mapped as an axis): the axis gets min - 1 and the center.
C28_Witness ==
  /\ call.fn = "axis_setup" /\ call.cache = CenteredFile /\ call.caps = Caps
  /\ call.code = 17 /\ call.min = 0 /\ call.max = 255
  /\ call.res = Returned([bornemin |-> -1, bornemax |-> 127])

\* The number of codes below 16 among the first k of the capability list
AxisRank(caps, k) == Cardinality({ j \in 1..k : caps[j] < 16 })

\* C29: the i-th rest sample is paired with the i-th absolute-axis code below 16 of
\* the capability list; the axis is centered iff -4000 < sample < 4000 and reversed
\* iff sample > 4000; a code >= 16 gets no entry; an absent file gives no entry.
C29_CalibrationPairing ==
  (call.fn = "axis_setup" /\ ~call.relaxValues.raised) =>
    LET res == call.relaxValues.res
    IN  IF ~call.cache.exists THEN res = EmptyMap
        ELSE /\ DOMAIN res = { call.caps[k] : k \in { j \in DOMAIN call.caps : call.caps[j] < 16 } }
             /\ \A k \in DOMAIN call.caps :
                  call.caps[k] < 16 =>
                    LET sample == call.cache.lines[AxisRank(call.caps, k) + 1].v
                    IN  /\ res[call.caps[k]].centered <=> (-4000 < sample /\ sample < 4000)
                        /\ res[call.caps[k]].reversed <=> sample > 4000

\* A file of three samples for the axes 0, 1, 2: the second one, -4000, makes axis 1
\* neither centered nor reversed, the third one makes axis 2 reversed.
C29_Witness ==
  /\ call.fn = "axis_setup" /\ call.caps = << 0, 1, 2, 16, 17 >>
  /\ call.cache = File(<< Line(3), Line(0), Line(-4000), Line(32767), Line(0) >>)
  /\ ~call.relaxValues.raised
  /\ call.relaxValues.res[1] = [centered |-> FALSE, reversed |-> FALSE]
  /\ call.relaxValues.res[2] = [centered |-> FALSE, reversed |-> TRUE]
  /\ 16 \notin DOMAIN call.relaxValues.res

\* ---------------------------------------------------- claims on the sessions
\* C31: handling an event of (device, code) changes at most the axis state of that
\* device and code. After the setup of listen(), a worker's axis states change only
\* in a step that reads an axis event: the position of that code on that device's
\* node changed, the state of every other code and every other device (also one
\* with the same mapping) is as before, and so is every other worker's.
C31_AxisStateFrame ==
  [][\A w \in Workers :
       (wax'[w] # wax[w] /\ wpc[w] # "listen")
       => \E o \in DOMAIN wax[w] : \E code \in DOMAIN wax[w][o] :
            /\ AbsValue(Node(o), code)' # AbsValue(Node(o), code)
            /\ wax'[w] = [wax[w] EXCEPT ![o][code] = wax'[w][o][code]]
            /\ \A v \in Workers \ {w} : wax'[v] = wax[v]]_vars

\* Two pads with the same mapping are in one session and one stick event was read:
\* the stick of the first pad is up and its state is -1, the second pad's is 0.
C31_Witness ==
  /\ nevents = 1
  /\ hw[1][<<"EV_ABS", 1>>] = AbsMin /\ hw[2][<<"EV_ABS", 1>>] = 0
  /\ \A p \in Phys : hw[p][<<"EV_ABS", 17>>] = 0 /\ hw[p][<<"EV_KEY", 304>>] = 0
  /\ \E w \in Workers :
       /\ wpc[w] = "loop"
       /\ Obj(w, 1) \in DOMAIN wax[w] /\ Obj(w, 2) \in DOMAIN wax[w]
       /\ wmapped[w][Obj(w, 1)] = Mapping /\ wmapped[w][Obj(w, 2)] = Mapping
       /\ wax[w][Obj(w, 1)] = (0 :> 0 @@ 1 :> -1)
       /\ wax[w][Obj(w, 2)] = (0 :> 0 @@ 1 :> 0)

\* An input of a pad that is mapped to the action is in its active position
Held(action) ==
  \E p \in env.joysticks :
    \/ /\ hw[p][<<"EV_ABS", 17>>] \in DOMAIN Mapping.hat[17]
       /\ actions[Mapping.hat[17][hw[p][<<"EV_ABS", 17>>]]] = action
    \/ /\ StickZone(p) \in DOMAIN Mapping.axis[1]
       /\ actions[Mapping.axis[1][StickZone(p)]] = action

\* C32: releasing one of two held inputs of the same action does not cancel the
\* repeat. When the worker, handling the release of an input, runs
\* _stop_continuous_action on the action of that input while another input of the
\* same action is held and continuous actions are enabled, the action still has a
\* live timer afterwards.
C32_HeldInputKeepsRepeat ==
  [][\A w \in Workers :
       (/\ Todo(w, "stop") /\ wops'[w] # wops[w]
        /\ \A i \in DOMAIN wops[w] : wops[w][i].op # "arm"
        /\ Head(wops[w]).from # "" => actions[Head(wops[w]).from] = Arg(w)
        /\ continuous_enabled /\ continuous_enabled' /\ UiIdle /\ UiIdle'
        /\ Held(Arg(w)) /\ LiveTimers(Arg(w)) # {})
       => LiveTimers(Arg(w))' # {}]_vars

\* C33: after hide() has returned and every pending timeout of start_gamepad_delayed
\* has fired, no worker thread is running and no device is grabbed.
C33_HiddenMeansStopped ==
  (~visible /\ UiIdle /\ startPending = 0)
  => /\ \A w \in Workers : ~Alive(w)
     /\ \A p \in Phys : grab[p] = NoObj

\* C34: after stopThread() has returned and until the next startThread(), the UI
\* loop delivers no action to the consumer callback.
C34_NoCallbackAfterStop ==
  [][stopped => Len(idleq') >= Len(idleq)]_vars

\* C35: after stopThread() has returned the device list is empty, and at any time
\* each physical device appears at most once in the device list.
C35_FreshDeviceList ==
  /\ stopped => Len(DevList) = 0
  /\ \A i, j \in DOMAIN DevList : Node(DevList[i]) = Node(DevList[j]) => i = j

\* No thread is referred to by _gamepad_thread and none is running
NoSession == gamepad_thread = 0 /\ \A w \in Workers : ~Alive(w)

\* C36: stopThread() without a session (no worker ever started, or a second call
\* after a stop) does not block: at each of its statements the UI thread can run
\* the statement, which leaves the continuous-enabled flag as it is and starts no
\* session; and its last statement returns with no worker handle, the run flag
\* clear and the timer table and the callback table empty.
C36_StopThreadIdempotent ==
  (InStopThread /\ NoSession)
  => /\ ENABLED (/\ StopAllRemove \/ StopAllClear \/ Join
                 /\ continuous_enabled' = continuous_enabled
                 /\ NoSession')
     /\ ui = << "join" >>
          => ENABLED (/\ Join
                      /\ ~InStopThread' /\ stopped'
                      /\ gamepad_thread' = 0 /\ ~gamepad_running'
                      /\ continuous_timers' = EmptyMap /\ continuous_callbacks' = {})

\* hide() and then quit(): the second stopThread() is running, after a session whose
\* worker left an entry in the timer table when the first one returned.
C36_Witness ==
  /\ stopped /\ InStopThread /\ NoSession
  /\ nstarts = 1 /\ continuous_timers # EmptyMap

\* -------------------------------------------------- claims on the refresh
\* C37: for any sequence of start(), stop() and tick firings, at most one tick of a
\* RefreshTask is pending at any time.
C37_OneTickPending ==
  \A r \in Tasks : refresh.refreshers[r].ticks <= 1

\* C38: after stop() with no later start(), at most one further tick runs the
\* command, and once it has run no tick is pending.
C38_OneTickAfterStop ==
  \A r \in Tasks :
    refresh.refreshers[r].halted
    => /\ refresh.refreshers[r].after <= 1
       /\ refresh.refreshers[r].after = 1 => refresh.refreshers[r].ticks = 0

====
